---- MODULE Spec2Model ----
(***************************************************************************)
(* Template embedding index of memegen: the Template Store (config.yml     *)
(* files), the ChromaDB collection "template_embeddings", and the          *)
(* operations of app/embeddings.py, app/main.py and scripts/ that read and *)
(* write them.                                                             *)
(*                                                                         *)
(* Values.  A config is a Python dict; every key is modelled as a field    *)
(* holding <<>> when the key is absent and <<v>> when it is present with   *)
(* value v.  None is the value Null.  Strings are TLA+ strings, documents  *)
(* are built with string concatenation exactly as the f-strings build them.*)
(* Timestamps are epoch seconds of a process whose local time zone is UTC. *)
(***************************************************************************)
EXTENDS Integers, Sequences, FiniteSets, TLC

(***************************************************************************)
(* Bounds of the model.                                                    *)
(***************************************************************************)
MaxOps == 2
MaxN == 2
MaxBatch == 1
MaxLen == 13
MaxChars == 12

Null == "<None>"

(* The template directories of the Template Store, in listing order. *)
TemplateDirs == <<"fry", "doge">>
Ids == {TemplateDirs[i] : i \in DOMAIN TemplateDirs}

(***************************************************************************)
(* Python helpers: dict access, truthiness, str().                         *)
(***************************************************************************)
Has(f) == f # <<>>
Get(f, default) == IF f = <<>> THEN default ELSE f[1]
Truthy(v) == v # Null /\ v # ""
Str(v) == IF v = Null THEN "None" ELSE v

IntToStr(n) ==
  CASE n = 0 -> "0" [] n = 1 -> "1" [] n = 2 -> "2" [] n = 3 -> "3"
    [] n = 4 -> "4" [] OTHER -> "5"

StrToInt(s) ==
  CASE s = "0" -> 0 [] s = "1" -> 1 [] s = "2" -> 2 [] s = "3" -> 3
    [] s = "4" -> 4 [] OTHER -> 5

RECURSIVE Join(_, _)
Join(parts, sep) ==
  IF parts = <<>> THEN ""
  ELSE IF Len(parts) = 1 THEN parts[1]
  ELSE parts[1] \o sep \o Join(Tail(parts), sep)

KeepNone(xs) == [i \in DOMAIN xs |-> Str(xs[i])]
RECURSIVE NotNone(_)
NotNone(xs) ==
  IF xs = <<>> THEN <<>>
  ELSE IF Head(xs) = Null THEN NotNone(Tail(xs))
  ELSE <<Str(Head(xs))>> \o NotNone(Tail(xs))

(***************************************************************************)
(* The config files the Template Store can hold at start, one per template *)
(* directory.  An example value is [list, items]: a YAML list, or a single *)
(* scalar (list = FALSE, items = <<scalar>>).                              *)
(***************************************************************************)
EmptyConfig ==
  [name |-> <<>>, keywords |-> <<>>, source |-> <<>>, example |-> <<>>,
   scraped_content |-> <<>>, aside_content |-> <<>>, added_at |-> <<>>,
   text |-> <<>>, template_id |-> <<>>, text_zones |-> <<>>]

Catalog(id) ==
  CASE id = "fry" ->
         [EmptyConfig EXCEPT !.name = <<"Fry">>, !.source = <<"http://kym/fry">>,
                             !.text = <<3>>]
    [] id = "doge" ->
         [EmptyConfig EXCEPT !.name = <<"Doge">>, !.keywords = <<<<Null, "wow">>>>,
                             !.source = <<"http://kym/doge">>,
                             !.example = <<[list |-> TRUE, items |-> <<"such", Null>>]>>,
                             !.scraped_content = <<"Doge is a dog.">>,
                             !.added_at = <<"2019-06-05T13:33:00">>,
                             !.text = <<1>>]
    [] OTHER ->
         [EmptyConfig EXCEPT !.name = <<"Drake">>, !.keywords = <<<<"choice">>>>,
                             !.source = <<Null>>]

(***************************************************************************)
(* date_to_timestamp: the dates the model uses, parsed as naive local time *)
(* (UTC).  The result is <<ts>>, or <<>> for None (a string that neither   *)
(* format parses).                                                         *)
(***************************************************************************)
date_to_timestamp(date_str) ==
  CASE date_str = "1970-01-01" -> <<0>>
    [] date_str = "2019-01-01" -> <<1546300800>>
    [] date_str = "2019-06-05T13:33:00" -> <<1559741580>>
    [] date_str = "2020-01-01" -> <<1577836800>>
    [] date_str = "2021-03-04T09:00:00" -> <<1614848400>>
    [] OTHER -> <<>>

(***************************************************************************)
(* truncate_text and get_embedding.  A vector is modelled by the text the  *)
(* provider embedded; the provider fails or answers, as the caller's input *)
(* ok says.  The result is <<vector>>, or <<>> for None.                   *)
(***************************************************************************)
DefaultMaxChars == 6000

RECURSIVE rfind(_, _)
rfind(s, ch) ==
  IF Len(s) = 0 THEN -1
  ELSE IF SubSeq(s, Len(s), Len(s)) = ch THEN Len(s) - 1
  ELSE rfind(SubSeq(s, 1, Len(s) - 1), ch)

TruncateAtAnyPeriod(text, max_chars) ==
  IF Len(text) <= max_chars THEN text
  ELSE IF rfind(SubSeq(text, 1, max_chars), ".") > 0
  THEN SubSeq(text, 1, rfind(SubSeq(text, 1, max_chars), ".") + 1)
  ELSE SubSeq(text, 1, max_chars)
truncate_text(text, max_chars) ==
  IF Len(text) <= max_chars THEN text
  ELSE LET truncated == SubSeq(text, 1, max_chars)
           last_period == rfind(truncated, ".")
       IN  IF 10 * last_period > 8 * max_chars
           THEN SubSeq(truncated, 1, last_period + 1)
           ELSE truncated

get_embedding(text, ok) ==
  IF ok THEN <<[of |-> truncate_text(text, DefaultMaxChars)]>> ELSE <<>>

(***************************************************************************)
(* Cosine distance of two vectors, in the index's "cosine" space: the      *)
(* provider's geometry is abstracted to four directions a quarter turn     *)
(* apart, the direction of a text being fixed by the text.  Distances are  *)
(* 0 (same direction), 1 (orthogonal) and 2 (opposite).                    *)
(***************************************************************************)
Direction(v) == Len(v.of) % 4

CosineDistance(u, v) ==
  LET d == (Direction(u) - Direction(v) + 4) % 4
  IN  CASE d = 0 -> 0 [] d = 2 -> 2 [] OTHER -> 1

(***************************************************************************)
(* json.dumps / yaml.dump / json.loads.  An encoded config remembers the   *)
(* format it was written in.  json.loads parses JSON text; of the YAML     *)
(* documents yaml.dump writes for a dict only that of the empty dict,      *)
(* "{}", is JSON text.  json_loads gives <<dict>>, or <<>> when it raises. *)
(***************************************************************************)
json_dumps(config) == [fmt |-> "json", cfg |-> config]
yaml_dump(config) == [fmt |-> "yaml", cfg |-> config]

json_loads(s) ==
  IF s.fmt = "json" \/ s.cfg = EmptyConfig THEN <<s.cfg>> ELSE <<>>

(***************************************************************************)
(* _create_template_text                                                   *)
(***************************************************************************)
_create_template_text(config) ==
  LET name_part ==
        IF Has(config.name) THEN <<"Name: " \o Str(config.name[1])>> ELSE <<>>
      valid_keywords == IF Has(config.keywords) THEN NotNone(config.keywords[1]) ELSE <<>>
      keywords_part ==
        IF valid_keywords # <<>>
        THEN <<"Keywords: " \o Join(valid_keywords, ", ")>> ELSE <<>>
      source_part ==
        IF Has(config.source) THEN <<"Source: " \o Str(config.source[1])>> ELSE <<>>
      examples == Get(config.example, [list |-> FALSE, items |-> <<Null>>])
      valid_examples == NotNone(examples.items)
      example_part ==
        IF ~Has(config.example) THEN <<>>
        ELSE IF examples.list
             THEN IF valid_examples # <<>>
                  THEN <<"Example: " \o Join(valid_examples, " ")>> ELSE <<>>
             ELSE IF examples.items[1] # Null
                  THEN <<"Example: " \o examples.items[1]>> ELSE <<>>
      description_part ==
        IF Has(config.scraped_content) /\ Truthy(config.scraped_content[1])
        THEN <<"Description: " \o config.scraped_content[1]>> ELSE <<>>
  IN  Join(name_part \o keywords_part \o source_part \o example_part
           \o description_part, " ")

(***************************************************************************)
(* State.                                                                  *)
(*   store        the Template Store: config.yml (a dict) per template dir *)
(*   index        the collection: entry (vector, document, metadata) per id*)
(*   initialized  template_embeddings._initialized of the running process  *)
(*   noneMetaOk   the installed ChromaDB accepts a None metadata value     *)
(*                (it rejects it with ValueError otherwise)                *)
(*   run          the pipeline operation in progress and its loop position *)
(*   ops          operations started so far (searches and lookups too)     *)
(*   out          what the last search_templates / get_template returned   *)
(*   hist         the documents a full rebuild left, while nothing else    *)
(*                has written since                                        *)
(***************************************************************************)
VARIABLES store, index, initialized, noneMetaOk, run, ops, out, hist, suspended

vars == <<store, index, initialized, noneMetaOk, run, ops, out, hist, suspended>>

EmptyIndex == <<>>
IndexOrder == TemplateDirs \o <<"config">>

Idle ==
  [mode |-> "idle", pc |-> "idle", force |-> FALSE, batch_size |-> 0,
   todo |-> <<>>, ids |-> <<>>, arg |-> <<>>, success_count |-> 0,
   batch_pos |-> 0, log |-> <<>>, pre |-> EmptyIndex, store0 |-> {},
   files |-> <<>>, inits |-> <<>>]

NoOut == [op |-> "none"]
NoHist == [valid |-> FALSE, docs |-> <<>>, ok |-> {}]

Documents(idx) == [id \in DOMAIN idx |-> idx[id].document]

(***************************************************************************)
(* _load_template_configs: every config.yml, with the derived template_id  *)
(* and text_zones set.  Directories are listed in a fixed order.           *)
(***************************************************************************)
LoadConfig(dir, file) ==
  [file EXCEPT !.template_id = <<dir>>,
               !.text_zones = IF Has(file.text) THEN <<file.text[1]>> ELSE <<2>>]

_load_template_configs(st) ==
  LET dirs == SelectSeq(TemplateDirs, LAMBDA d : d \in DOMAIN st)
  IN  [i \in 1..Len(dirs) |-> LoadConfig(dirs[i], st[dirs[i]])]

list_all_templates(idx) == SelectSeq(IndexOrder, LAMBDA d : d \in DOMAIN idx)

_has_embeddings(idx) == DOMAIN idx # {}

(***************************************************************************)
(* scrape_webpage: what the Content Extractor can answer for a URL: None   *)
(* (<<>>), or a result.                                                    *)
(***************************************************************************)
ScrapeResults ==
  { <<>>,
    <<[text |-> "", aside_content |-> "", added_at |-> Null]>>,
    <<[text |-> "Lore.", aside_content |-> "About",
       added_at |-> "2021-03-04T09:00:00"]>> }

NeedsScrapeAlways(config, force_rescrape) ==
  Has(config.source) /\ Truthy(config.source[1])
NeedsScrape(config, force_rescrape) ==
  /\ Has(config.source) /\ Truthy(config.source[1])
  /\ ~(~force_rescrape /\ Has(config.scraped_content)
                       /\ Truthy(config.scraped_content[1]))

EnrichedDropsText(config, r) ==
  [config EXCEPT !.aside_content = IF Truthy(r.aside_content)
                                   THEN <<r.aside_content>> ELSE @,
                 !.added_at = IF Truthy(r.added_at) THEN <<r.added_at>> ELSE @]
Enriched(config, r) ==
  [config EXCEPT !.scraped_content = <<r.text>>,
                 !.aside_content = IF Truthy(r.aside_content)
                                   THEN <<r.aside_content>> ELSE @,
                 !.added_at = IF Truthy(r.added_at) THEN <<r.added_at>> ELSE @]

(***************************************************************************)
(* _scrape_and_update_config.  result is the extractor's answer, writable  *)
(* says whether config.yml can be written.  Gives the returned config, the *)
(* store, whether the extractor was called and whether the call raised.    *)
(***************************************************************************)
ScrapeReturnsStale(config, force_rescrape, result, st, writable) ==
  IF ~NeedsScrape(config, force_rescrape) \/ result = <<>>
  THEN [config |-> config, store |-> st,
        fetched |-> NeedsScrape(config, force_rescrape), raised |-> FALSE]
  ELSE [config |-> config,
        store |-> [st EXCEPT ![config.template_id[1]] = Enriched(config, result[1])],
        fetched |-> TRUE, raised |-> FALSE]
_scrape_and_update_config(config, force_rescrape, result, st, writable) ==
  IF ~NeedsScrape(config, force_rescrape)
  THEN [config |-> config, store |-> st, fetched |-> FALSE, raised |-> FALSE]
  ELSE IF result = <<>>
  THEN [config |-> config, store |-> st, fetched |-> TRUE, raised |-> FALSE]
  ELSE LET c1 == Enriched(config, result[1])
       IN  IF Has(c1.template_id) /\ c1.template_id[1] \in DOMAIN st
           THEN IF writable
                THEN [config |-> c1,
                      store |-> [st EXCEPT ![c1.template_id[1]] = c1],
                      fetched |-> TRUE, raised |-> FALSE]
                ELSE [config |-> c1, store |-> st,
                      fetched |-> TRUE, raised |-> TRUE]
           ELSE [config |-> c1, store |-> st, fetched |-> TRUE, raised |-> FALSE]

(***************************************************************************)
(* The collection's operations, as the ChromaDB client performs them.      *)
(*   add     validates the metadata (a None value is a ValueError unless   *)
(*           the build accepts it), then inserts; a record whose id is     *)
(*           already in the collection is ignored without an exception.    *)
(*   update  replaces the given fields of an existing record.              *)
(*   query   validates n_results and the where filter (an operator         *)
(*           expression must hold exactly one operator), then returns the  *)
(*           n_results nearest matching records, nearest first.            *)
(***************************************************************************)
AddDropsOthers(idx, id, embedding, document, metadata, ok, noneOk) ==
  IF ~ok \/ (metadata.added_at_ts = <<>> /\ ~noneOk)
  THEN [index |-> idx, raised |-> TRUE]
  ELSE [index |-> [x \in {id} |-> [vector |-> embedding, document |-> document,
                                   metadata |-> metadata]],
        raised |-> FALSE]
collection_add(idx, id, embedding, document, metadata, ok, noneOk) ==
  IF ~ok \/ (metadata.added_at_ts = <<>> /\ ~noneOk)
  THEN [index |-> idx, raised |-> TRUE]
  ELSE IF id \in DOMAIN idx
  THEN [index |-> idx, raised |-> FALSE]
  ELSE [index |-> [x \in DOMAIN idx \cup {id} |->
                     IF x = id
                     THEN [vector |-> embedding, document |-> document,
                           metadata |-> metadata]
                     ELSE idx[x]],
        raised |-> FALSE]

collection_update(idx, id, embedding, document, metadata) ==
  IF id \in DOMAIN idx
  THEN [idx EXCEPT ![id] = [vector |-> embedding, document |-> document,
                            metadata |-> metadata]]
  ELSE idx

DeleteNothing(idx, ids) == idx
DeleteAllButOne(idx, ids) ==
  IF ids = {} THEN idx
  ELSE [x \in {CHOOSE y \in ids : TRUE} \cap DOMAIN idx |-> idx[x]]
collection_delete(idx, ids) == [x \in DOMAIN idx \ ids |-> idx[x]]

Satisfies(metadata, c) ==
  /\ metadata.added_at_ts # <<>>
  /\ IF c.op = "$gte" THEN metadata.added_at_ts[1] >= c.v
                      ELSE metadata.added_at_ts[1] <= c.v

Matches(idx, where) ==
  {id \in DOMAIN idx : \A c \in where : Satisfies(idx[id].metadata, c)}

QueryRaises(where, n_results) == Cardinality(where) > 1 \/ n_results <= 0

Min(a, b) == IF a <= b THEN a ELSE b

QueryUnordered(idx, query_embedding, n_results, where) ==
  { s \in [1..Min(n_results, Cardinality(Matches(idx, where))) -> Matches(idx, where)] :
      \A i, j \in DOMAIN s : i < j => s[i] # s[j] }
collection_query(idx, query_embedding, n_results, where) ==
  LET cands == Matches(idx, where)
      k == Min(n_results, Cardinality(cands))
      d(id) == CosineDistance(query_embedding, idx[id].vector)
  IN  { s \in [1..k -> cands] :
          /\ \A i, j \in 1..k : i < j => s[i] # s[j] /\ d(s[i]) <= d(s[j])
          /\ \A id \in cands :
               (\A i \in 1..k : s[i] # id) => \A i \in 1..k : d(s[i]) <= d(id) }

(***************************************************************************)
(* add_template.  embOk: the embedding provider answers; addOk: the store  *)
(* accepts the write.  Gives the index and the returned bool.              *)
(***************************************************************************)
AddMetadata(template_id, config) ==
  LET added_at == Get(config.added_at, "")
  IN  [name |-> Get(config.name, ""),
       template_id |-> template_id,
       text_zones |-> IntToStr(Get(config.text_zones, 2)),
       added_at |-> added_at,
       added_at_ts |-> IF Truthy(added_at) THEN date_to_timestamp(added_at)
                       ELSE <<>>,
       config_json |-> json_dumps(config)]

AddTemplateCountsFailure(idx, template_id, config, template_text, embOk, addOk, noneOk) ==
  LET embedding == get_embedding(template_text, embOk)
  IN  IF embedding = <<>>
      THEN [index |-> idx, ret |-> TRUE]
      ELSE LET r == collection_add(idx, template_id, embedding[1], template_text,
                                   AddMetadata(template_id, config), addOk, noneOk)
           IN  [index |-> r.index, ret |-> TRUE]
AddTemplateHalfWritten(idx, template_id, config, template_text, embOk, addOk, noneOk) ==
  LET embedding == get_embedding(template_text, embOk)
      r == collection_add(idx, template_id, embedding[1], template_text,
                          AddMetadata(template_id, config), addOk, noneOk)
  IN  IF embedding = <<>>
      THEN [index |-> idx, ret |-> FALSE]
      ELSE IF r.raised /\ template_id \notin DOMAIN idx
      THEN [index |-> [x \in DOMAIN idx \cup {template_id} |->
                         IF x = template_id
                         THEN [vector |-> embedding[1], document |-> "",
                               metadata |-> AddMetadata(template_id, config)]
                         ELSE idx[x]],
            ret |-> FALSE]
      ELSE [index |-> r.index, ret |-> ~r.raised]
add_template(idx, template_id, config, template_text, embOk, addOk, noneOk) ==
  LET embedding == get_embedding(template_text, embOk)
  IN  IF embedding = <<>>
      THEN [index |-> idx, ret |-> FALSE]
      ELSE LET r == collection_add(idx, template_id, embedding[1], template_text,
                                   AddMetadata(template_id, config), addOk, noneOk)
           IN  [index |-> r.index, ret |-> ~r.raised]

(***************************************************************************)
(* One pass of the loop body shared by update_embeddings,                  *)
(* process_missing_templates and the batched loop of the repair script:    *)
(* enrich, synthesize, embed, add.  An exception of the enrich step is     *)
(* caught by the loop's except clause and the item is left.                *)
(***************************************************************************)
PipelineItemStaleText(st, idx, config, force, result, writable, embOk, addOk, noneOk) ==
  LET e == _scrape_and_update_config(config, force, result, st, writable)
      template_text == _create_template_text(config)
      a == add_template(idx, e.config.template_id[1], e.config, template_text,
                        embOk, addOk, noneOk)
  IN  IF e.raised
      THEN [store |-> e.store, index |-> idx, ok |-> FALSE,
            fetched |-> e.fetched, document |-> ""]
      ELSE [store |-> e.store, index |-> a.index, ok |-> a.ret,
            fetched |-> e.fetched, document |-> template_text]
pipeline_item(st, idx, config, force, result, writable, embOk, addOk, noneOk) ==
  LET e == _scrape_and_update_config(config, force, result, st, writable)
      template_text == _create_template_text(e.config)
      a == add_template(idx, e.config.template_id[1], e.config, template_text,
                        embOk, addOk, noneOk)
  IN  IF e.raised
      THEN [store |-> e.store, index |-> idx, ok |-> FALSE,
            fetched |-> e.fetched, document |-> ""]
      ELSE [store |-> e.store, index |-> a.index, ok |-> a.ret,
            fetched |-> e.fetched, document |-> template_text]

(* The items the loop still has to visit after one item: the loop goes on  *)
(* to the next item whether the item succeeded or not.                     *)
RemainingAbortOnFailure(todo, ok) == IF ok THEN Tail(todo) ELSE <<>>
Remaining(todo, ok) == Tail(todo)

(***************************************************************************)
(* get_missing_templates                                                   *)
(***************************************************************************)
MissingOfAll(all_ids, existing_ids) == all_ids
MissingSwapped(all_ids, existing_ids) == existing_ids \ all_ids
MissingIds(all_ids, existing_ids) == all_ids \ existing_ids

GetMissingReturnsAll(st, idx) == _load_template_configs(st)
get_missing_templates(st, idx) ==
  LET all_configs == _load_template_configs(st)
      all_template_ids == {all_configs[i].template_id[1] : i \in DOMAIN all_configs}
      existing == list_all_templates(idx)
      existing_ids == {existing[i] : i \in DOMAIN existing}
      missing_ids == MissingIds(all_template_ids, existing_ids)
  IN  SelectSeq(all_configs, LAMBDA c : c.template_id[1] \in missing_ids)

(***************************************************************************)
(* The metadata block process_updated_metadata computes from the config    *)
(* file as it is on disk.                                                  *)
(***************************************************************************)
RefreshMetadata(template_id, config) ==
  LET added_at == Get(config.added_at, "")
  IN  [name |-> Get(config.name, ""),
       template_id |-> template_id,
       text_zones |-> IntToStr(Get(config.text_zones, 2)),
       added_at |-> IF Truthy(added_at) THEN added_at ELSE "",
       added_at_ts |-> IF Truthy(added_at) THEN date_to_timestamp(added_at)
                       ELSE <<0>>,
       config_json |-> yaml_dump(config)]

RefreshReembed(idx, template_id, metadata) ==
  collection_update(idx, template_id, [of |-> ""], "", metadata)
RefreshUpdate(idx, template_id, metadata) ==
  collection_update(idx, template_id, idx[template_id].vector,
                    idx[template_id].document, metadata)

RefreshItemDropsOrphan(st, idx, template_id, updOk, noneOk) ==
  IF template_id \notin DOMAIN st
  THEN [index |-> collection_delete(idx, {template_id}),
        ok |-> FALSE, skipped |-> TRUE]
  ELSE LET metadata == RefreshMetadata(template_id, st[template_id])
       IN  IF template_id \notin DOMAIN idx
           THEN [index |-> idx, ok |-> FALSE, skipped |-> TRUE]
           ELSE IF ~updOk \/ (metadata.added_at_ts = <<>> /\ ~noneOk)
           THEN [index |-> idx, ok |-> FALSE, skipped |-> FALSE]
           ELSE [index |-> RefreshUpdate(idx, template_id, metadata),
                 ok |-> TRUE, skipped |-> FALSE]
refresh_item(st, idx, template_id, updOk, noneOk) ==
  IF template_id \notin DOMAIN st
  THEN [index |-> idx, ok |-> FALSE, skipped |-> TRUE]
  ELSE LET metadata == RefreshMetadata(template_id, st[template_id])
       IN  IF template_id \notin DOMAIN idx
           THEN [index |-> idx, ok |-> FALSE, skipped |-> TRUE]
           ELSE IF ~updOk \/ (metadata.added_at_ts = <<>> /\ ~noneOk)
           THEN [index |-> idx, ok |-> FALSE, skipped |-> FALSE]
           ELSE [index |-> RefreshUpdate(idx, template_id, metadata),
                 ok |-> TRUE, skipped |-> FALSE]

(***************************************************************************)
(* Operations.  A pipeline operation is a run: it starts, visits its items *)
(* one per step, and returns.  The scripts call initialize() first, which  *)
(* runs a full rebuild when the collection is empty (pc = "init").         *)
(***************************************************************************)
Done ==
  /\ run.pc = "main" /\ run.todo = <<>> /\ run.ids = <<>> /\ run.arg = <<>>
  /\ run.files = <<>>

CanStart == run.pc = "idle" /\ ops < MaxOps /\ out = NoOut

(* The state of a run as its own loop starts, after initialize(). *)
MainOf(r, st, idx) ==
  LET base == [r EXCEPT !.pc = "main", !.todo = <<>>, !.ids = <<>>,
                        !.success_count = 0, !.batch_pos = 0, !.log = <<>>,
                        !.pre = idx, !.store0 = DOMAIN st]
  IN  CASE r.mode \in {"repair", "repair_script"} ->
             [base EXCEPT !.todo = get_missing_templates(st, idx)]
        [] r.mode = "refresh" ->
             [base EXCEPT !.ids = list_all_templates(idx)]
        [] OTHER -> base

(* initialize(): a rebuild when the instance is not yet initialized and    *)
(* the collection is empty; an initialized instance returns at once,       *)
(* without reading the collection.  Called records a call in the run's     *)
(* inits: the flag and the collection at the call, and what the call did.  *)
NeedsRebuildIgnoringFlag(inited, idx) == ~_has_embeddings(idx)
NeedsRebuild(inited, idx) == ~inited /\ ~_has_embeddings(idx)

Called(r, inited, idx) ==
  [r EXCEPT !.inits = Append(@, [was |-> inited, empty |-> DOMAIN idx = {},
                                 read |-> ~inited,
                                 rebuild |-> NeedsRebuild(inited, idx)])]

(* initialize() at the start of a script. *)
Initialize(r) ==
  IF NeedsRebuild(initialized, index)
  THEN /\ run' = [Called(r, initialized, index) EXCEPT
                    !.pc = "init", !.todo = _load_template_configs(store)]
       /\ UNCHANGED initialized
  ELSE /\ run' = MainOf(Called(r, initialized, index), store, index)
       /\ initialized' = TRUE

(* update_embeddings: load the configs, clear the collection, then loop. *)
StartUpdateEmbeddings ==
  /\ CanStart
  /\ \E force \in BOOLEAN :
       run' = [Idle EXCEPT !.mode = "rebuild", !.pc = "main", !.force = force,
                           !.todo = _load_template_configs(store),
                           !.pre = index, !.store0 = DOMAIN store]
  /\ index' = collection_delete(index, DOMAIN index)
  /\ ops' = ops + 1
  /\ UNCHANGED out
  /\ UNCHANGED <<store, initialized, noneMetaOk, hist>>
  /\ UNCHANGED suspended

(* POST /templates/process-missing: process_missing_templates. *)
StartProcessMissing ==
  /\ CanStart
  /\ \E force \in BOOLEAN :
       run' = MainOf([Idle EXCEPT !.mode = "repair", !.force = force], store, index)
  /\ ops' = ops + 1
  /\ UNCHANGED out
  /\ hist' = NoHist
  /\ UNCHANGED <<store, index, initialized, noneMetaOk>>
  /\ UNCHANGED suspended

(* scripts/process_missing_embeddings.py, batch_size 0 standing for None. *)
StartRepairScript ==
  /\ CanStart
  /\ \E force \in BOOLEAN, batch_size \in 0..MaxBatch :
       Initialize([Idle EXCEPT !.mode = "repair_script", !.force = force,
                               !.batch_size = batch_size])
  /\ ops' = ops + 1
  /\ UNCHANGED out
  /\ hist' = NoHist
  /\ UNCHANGED <<store, index, noneMetaOk>>
  /\ UNCHANGED suspended

(* scripts/process_missing_embeddings.py --update-metadata. *)
StartRefreshScript ==
  /\ CanStart
  /\ Initialize([Idle EXCEPT !.mode = "refresh"])
  /\ ops' = ops + 1
  /\ UNCHANGED out
  /\ hist' = NoHist
  /\ UNCHANGED <<store, index, noneMetaOk>>
  /\ UNCHANGED suspended

(* test_scrape_and_embed up to its add_template call, on the config.yml of *)
(* dir: scrape and save, then initialize().  r is the script's run; the    *)
(* first template of a process starts its log.                             *)
TestMain(r, st, idx) ==
  IF r.pc = "idle" THEN MainOf(r, st, idx) ELSE r

test_scrape_and_embed(r, dir, force) ==
  IF dir \notin DOMAIN store
  THEN /\ run' = [r EXCEPT !.pc = "main"]
       /\ UNCHANGED <<store, initialized>>
  ELSE
       LET config == store[dir]
           scrape == force \/ ~Has(config.scraped_content)
       IN  IF ~(Has(config.source) /\ Truthy(config.source[1]))
           THEN /\ run' = [r EXCEPT !.pc = "main"]
                /\ UNCHANGED <<store, initialized>>
           ELSE \E result \in (IF scrape THEN ScrapeResults ELSE {<<>>}) :
                  IF scrape /\ result = <<>>
                  THEN /\ run' = [r EXCEPT !.pc = "main"]
                       /\ UNCHANGED <<store, initialized>>
                  ELSE LET c1 == IF scrape THEN Enriched(config, result[1])
                                 ELSE config
                           st1 == [store EXCEPT ![dir] = c1]
                           r1 == Called(r, initialized, index)
                       IN  /\ store' = st1
                           /\ IF NeedsRebuild(initialized, index)
                              THEN /\ run' = [r1 EXCEPT !.pc = "init", !.arg = <<c1>>,
                                          !.todo = _load_template_configs(st1)]
                                   /\ UNCHANGED initialized
                              ELSE /\ run' = [TestMain(r1, st1, index)
                                              EXCEPT !.arg = <<c1>>]
                                   /\ initialized' = TRUE

(* scripts/test_scraping.py on one template's config.yml. *)
StartTestScrape ==
  /\ CanStart
  /\ \E dir \in DOMAIN store, force \in BOOLEAN :
       test_scrape_and_embed([Idle EXCEPT !.mode = "test", !.force = force],
                             dir, force)
  /\ ops' = ops + 1
  /\ UNCHANGED out
  /\ hist' = NoHist
  /\ UNCHANGED <<index, noneMetaOk>>
  /\ UNCHANGED suspended

(* scripts/test_scraping.py --all: process_all_templates lists the         *)
(* config.yml of every template directory and calls test_scrape_and_embed  *)
(* on each, one after the other in one process.                            *)
StartProcessAllTemplates ==
  /\ CanStart
  /\ DOMAIN store # {}
  /\ \E force \in BOOLEAN :
       LET files == SelectSeq(TemplateDirs, LAMBDA d : d \in DOMAIN store)
       IN  test_scrape_and_embed([Idle EXCEPT !.mode = "test", !.force = force,
                                             !.files = Tail(files)],
                                 Head(files), force)
  /\ ops' = ops + 1
  /\ UNCHANGED out
  /\ hist' = NoHist
  /\ UNCHANGED <<index, noneMetaOk>>
  /\ UNCHANGED suspended

(* One item of a rebuild or repair loop. *)
PipelineItem ==
  /\ out = NoOut
  /\ run.pc \in {"init", "main"}
  /\ run.todo # <<>>
  /\ LET config == Head(run.todo)
         force == run.pc = "main" /\ run.force
         newBatch == /\ run.pc = "main" /\ run.batch_size > 0
                     /\ run.batch_pos = run.batch_size
     IN  \E result \in (IF NeedsScrape(config, force) THEN ScrapeResults ELSE {<<>>}),
            writable, embOk, addOk \in BOOLEAN :
           /\ ~writable => result # <<>>
           /\ ~addOk => embOk
           /\ LET r == pipeline_item(store, index, config, force, result,
                                     writable, embOk, addOk, noneMetaOk)
              IN  /\ store' = r.store
                  /\ index' = r.index
                  /\ run' = [run EXCEPT
                       !.todo = Remaining(@, r.ok),
                       !.success_count = (IF newBatch THEN 0 ELSE @)
                                         + (IF r.ok THEN 1 ELSE 0),
                       !.batch_pos = (IF newBatch THEN 0 ELSE @) + 1,
                       !.log = Append(@, [op |-> "add", id |-> config.template_id[1],
                                          ok |-> r.ok, fetched |-> r.fetched,
                                          document |-> r.document])]
  /\ UNCHANGED out
  /\ UNCHANGED <<initialized, noneMetaOk, ops, hist>>
  /\ UNCHANGED suspended

(* initialize() returns: the script's own work starts. *)
InitDone ==
  /\ out = NoOut
  /\ run.pc = "init" /\ run.todo = <<>>
  /\ initialized' = TRUE
  /\ run' = [MainOf(run, store, index) EXCEPT !.arg = run.arg]
  /\ UNCHANGED out
  /\ UNCHANGED <<store, index, noneMetaOk, ops, hist>>
  /\ UNCHANGED suspended

(* One id of the metadata-only refresh. *)
RefreshItem ==
  /\ out = NoOut
  /\ run.pc = "main" /\ run.ids # <<>>
  /\ LET template_id == Head(run.ids)
     IN  \E updOk \in BOOLEAN :
           LET r == refresh_item(store, index, template_id, updOk, noneMetaOk)
           IN  /\ index' = r.index
               /\ run' = [run EXCEPT
                    !.ids = Remaining(@, r.ok \/ r.skipped),
                    !.success_count = @ + (IF r.ok THEN 1 ELSE 0),
                    !.log = Append(@, [op |-> "update", id |-> template_id,
                                       ok |-> r.ok, fetched |-> FALSE,
                                       document |-> ""])]
  /\ UNCHANGED out
  /\ UNCHANGED <<store, initialized, noneMetaOk, ops, hist>>
  /\ UNCHANGED suspended

(* test_scrape_and_embed adds the template it was given. *)
TestAdd ==
  /\ out = NoOut
  /\ run.pc = "main" /\ run.arg # <<>>
  /\ LET config == run.arg[1]
         template_text == _create_template_text(config)
         template_id == Get(config.template_id, "config")
     IN  \E embOk, addOk \in BOOLEAN :
           /\ ~addOk => embOk
           /\ LET a == add_template(index, template_id, config, template_text,
                                    embOk, addOk, noneMetaOk)
              IN  /\ index' = a.index
                  /\ run' = [run EXCEPT
                       !.arg = <<>>,
                       !.success_count = @ + (IF a.ret THEN 1 ELSE 0),
                       !.log = Append(@, [op |-> "add", id |-> template_id,
                                          ok |-> a.ret, fetched |-> FALSE,
                                          document |-> template_text])]
  /\ UNCHANGED out
  /\ UNCHANGED <<store, initialized, noneMetaOk, ops, hist>>
  /\ UNCHANGED suspended

(* process_all_templates goes on to the next config file. *)
NextTestTemplate ==
  /\ out = NoOut
  /\ run.mode = "test" /\ run.pc = "main" /\ run.arg = <<>> /\ run.todo = <<>>
  /\ run.files # <<>>
  /\ test_scrape_and_embed([run EXCEPT !.files = Tail(@)], Head(run.files),
                           run.force)
  /\ UNCHANGED out
  /\ UNCHANGED <<index, noneMetaOk, ops, hist>>
  /\ UNCHANGED suspended

OkIds(log) == {log[i].id : i \in {j \in DOMAIN log : log[j].ok}}

(* The operation returns; a script's process ends with it. *)
Return ==
  /\ out = NoOut
  /\ Done
  /\ run' = Idle
  /\ initialized' = IF run.mode \in {"rebuild", "repair"} THEN initialized ELSE FALSE
  /\ hist' = IF run.mode = "rebuild"
             THEN [valid |-> TRUE, docs |-> Documents(index), ok |-> OkIds(run.log)]
             ELSE NoHist
  /\ UNCHANGED out
  /\ UNCHANGED <<store, index, noneMetaOk, ops>>
  /\ UNCHANGED suspended

(* The server starts (before_server_start): setup_embeddings calls         *)
(* update_embeddings() when the collection is empty, without awaiting it:  *)
(* the call makes a coroutine object that nobody runs, so the body of      *)
(* update_embeddings is not executed.  out holds what the listener did.    *)
SetupCall(had) == IF had THEN "not called" ELSE "coroutine never awaited"

setup_embeddings ==
  /\ CanStart
  /\ out' = [op |-> "setup_embeddings", had |-> _has_embeddings(index),
             update_embeddings |-> SetupCall(_has_embeddings(index))]
  /\ initialized' = FALSE
  /\ ops' = ops + 1
  /\ UNCHANGED <<store, index, noneMetaOk, run, hist>>
  /\ UNCHANGED suspended

(* A template directory is removed from the Template Store. *)
EnvRemoveTemplate ==
  /\ CanStart
  /\ \E dir \in DOMAIN store :
       store' = [d \in DOMAIN store \ {dir} |-> store[d]]
  /\ ops' = ops + 1
  /\ UNCHANGED out
  /\ hist' = NoHist
  /\ UNCHANGED <<index, initialized, noneMetaOk, run>>
  /\ UNCHANGED suspended

(***************************************************************************)
(* search_templates.  The where clause is the set of operator constraints  *)
(* on added_at_ts the two date arguments add; a date whose timestamp is    *)
(* None or 0 adds none ("if from_ts:").  Any exception gives [].           *)
(***************************************************************************)
Queries == {"drake meme"}

(* The from_date / to_date pairs of the requests: no date, one date, both  *)
(* dates in order and inverted, and pairs with a date strptime rejects.    *)
DateRanges ==
  ({Null, "1970-01-01", "2020-01-01"} \X {Null})
  \cup ({Null} \X {"1970-01-01", "2020-01-01"})
  \cup {<<"2019-01-01", "2020-01-01">>, <<"2020-01-01", "2019-01-01">>}
BadDateRanges ==
  {<<"2020-13-01", Null>>, <<Null, "06/05/2019">>, <<"2020-01-01", "2020-13-01">>}

(***************************************************************************)
(* datetime.strptime(s, "%Y-%m-%d") of the handler: TRUE when it parses.   *)
(* The directives match \d\d\d\d, 1[0-2]|0[1-9]|[1-9] and                  *)
(* 3[01]|[12]\d|0[1-9]|[1-9] (one-digit months and days are accepted), the  *)
(* whole string must be consumed, and the date must exist.                 *)
(***************************************************************************)
DigitVal(c) ==
  CASE c = "0" -> 0 [] c = "1" -> 1 [] c = "2" -> 2 [] c = "3" -> 3
    [] c = "4" -> 4 [] c = "5" -> 5 [] c = "6" -> 6 [] c = "7" -> 7
    [] c = "8" -> 8 [] c = "9" -> 9 [] OTHER -> -1

IsDigits(s) == \A i \in 1..Len(s) : DigitVal(SubSeq(s, i, i)) >= 0

RECURSIVE ParseNat(_)
ParseNat(s) ==
  IF Len(s) = 0 THEN 0
  ELSE 10 * ParseNat(SubSeq(s, 1, Len(s) - 1)) + DigitVal(SubSeq(s, Len(s), Len(s)))

DaysInMonth(y, m) ==
  IF m \in {4, 6, 9, 11} THEN 30
  ELSE IF m # 2 THEN 31
  ELSE IF (y % 4 = 0 /\ y % 100 # 0) \/ y % 400 = 0 THEN 29 ELSE 28

StrptimeAcceptsAll(s) == TRUE
strptime_ymd(s) ==
  \E lm, ld \in 1..2 :
    /\ Len(s) = 6 + lm + ld
    /\ LET Y == SubSeq(s, 1, 4)
           m == SubSeq(s, 6, 5 + lm)
           d == SubSeq(s, 7 + lm, 6 + lm + ld)
       IN  /\ SubSeq(s, 5, 5) = "-" /\ SubSeq(s, 6 + lm, 6 + lm) = "-"
           /\ IsDigits(Y) /\ IsDigits(m) /\ IsDigits(d)
           /\ ParseNat(Y) >= 1
           /\ ParseNat(m) \in 1..12
           /\ ParseNat(d) \in 1..DaysInMonth(ParseNat(Y), ParseNat(m))

TsTruthy(ts) == ts # <<>> /\ ts[1] # 0

WhereClause(from_date, to_date) ==
  (IF Truthy(from_date) /\ TsTruthy(date_to_timestamp(from_date))
   THEN {[op |-> "$gte", v |-> date_to_timestamp(from_date)[1]]} ELSE {})
  \cup
  (IF Truthy(to_date) /\ TsTruthy(date_to_timestamp(to_date))
   THEN {[op |-> "$lte", v |-> date_to_timestamp(to_date)[1]]} ELSE {})

SearchResultDistance(idx, query_embedding, template_id) ==
  LET metadata == idx[template_id].metadata
  IN  [template_id |-> template_id,
       name |-> metadata.name,
       text_zones |-> StrToInt(metadata.text_zones),
       added_at |-> metadata.added_at,
       similarity |-> CosineDistance(query_embedding, idx[template_id].vector),
       config |-> json_loads(metadata.config_json),
       added_at_ts |-> metadata.added_at_ts]
SearchResult(idx, query_embedding, template_id) ==
  LET metadata == idx[template_id].metadata
  IN  [template_id |-> template_id,
       name |-> metadata.name,
       text_zones |-> StrToInt(metadata.text_zones),
       added_at |-> metadata.added_at,
       similarity |-> 1 - CosineDistance(query_embedding, idx[template_id].vector),
       config |-> json_loads(metadata.config_json),
       added_at_ts |-> metadata.added_at_ts]

(* What search_templates can return (the index may order ties either way): *)
(* the list, and the error line it logged, "" when it logged none.  Each   *)
(* result carries, beside the fields the code returns, the added_at_ts of  *)
(* its entry; config is <<dict>>.                                          *)
search_templates(idx, query, n_results, from_date, to_date, embOk) ==
  LET query_embedding == get_embedding(query, embOk)
      where == WhereClause(from_date, to_date)
  IN  IF query_embedding = <<>>
      THEN {[results |-> <<>>, logged |-> "Failed to get embedding for query"]}
      ELSE IF QueryRaises(where, n_results)
      THEN {[results |-> <<>>, logged |-> "Search error"]}
      ELSE { IF \E i \in DOMAIN ids :
                  json_loads(idx[ids[i]].metadata.config_json) = <<>>
             THEN [results |-> <<>>, logged |-> "Search error"]
             ELSE [results |-> [i \in DOMAIN ids |->
                                  SearchResult(idx, query_embedding[1], ids[i])],
                   logged |-> ""]
             : ids \in collection_query(idx, query_embedding[1], n_results, where) }

(* GET /search: the dates are validated, then search_templates is called;  *)
(* the response is 400 with an error body, or 200 with status "success"    *)
(* (search_templates raises nothing, so the 500 branch is never taken).    *)

Search ==
  /\ out = NoOut /\ ops < MaxOps
  /\ \E query \in Queries, n_results \in 0..MaxN,
        range \in DateRanges \cup BadDateRanges, embOk \in BOOLEAN :
      LET from_date == range[1]
          to_date == range[2]
      IN
       /\ (~embOk \/ n_results = 0) => from_date = Null /\ to_date = Null
       /\ (~embOk \/ range \in BadDateRanges) => n_results = 1
       /\ IF \/ Truthy(from_date) /\ ~strptime_ymd(from_date)
             \/ Truthy(to_date) /\ ~strptime_ymd(to_date)
          THEN out' = [op |-> "search", query |-> query, n_results |-> n_results,
                       from_date |-> from_date, to_date |-> to_date,
                       embOk |-> embOk, code |-> 400, status |-> "error",
                       invoked |-> FALSE, results |-> <<>>, logged |-> ""]
          ELSE \E r \in search_templates(index, query, n_results, from_date,
                                        to_date, embOk) :
                 out' = [op |-> "search", query |-> query, n_results |-> n_results,
                         from_date |-> from_date, to_date |-> to_date,
                         embOk |-> embOk, code |-> 200, status |-> "success",
                         invoked |-> TRUE, results |-> r.results,
                         logged |-> r.logged]
  /\ ops' = ops + 1
  /\ UNCHANGED <<store, index, initialized, noneMetaOk, run, hist>>
  /\ UNCHANGED suspended

(***************************************************************************)
(* get_template: None (found = FALSE) when the id is not in the collection *)
(* or when decoding its config_json raises.  GET /templates/<id>/info      *)
(* answers 404 for None and 200 otherwise.                                 *)
(***************************************************************************)
get_template(idx, template_id) ==
  IF template_id \notin DOMAIN idx
  THEN [found |-> FALSE, config |-> <<>>, text_zones |-> 0]
  ELSE LET metadata == idx[template_id].metadata
           config == json_loads(metadata.config_json)
       IN  IF config = <<>>
           THEN [found |-> FALSE, config |-> <<>>, text_zones |-> 0]
           ELSE [found |-> TRUE, config |-> config,
                 text_zones |-> StrToInt(metadata.text_zones)]

GetTemplate ==
  /\ out = NoOut /\ ops < MaxOps
  /\ \E template_id \in Ids \cup {"config"} :
       out' = [op |-> "get", template_id |-> template_id,
               info |-> get_template(index, template_id),
               code |-> IF get_template(index, template_id).found
                        THEN 200 ELSE 404]
  /\ ops' = ops + 1
  /\ UNCHANGED <<store, index, initialized, noneMetaOk, run, hist>>
  /\ UNCHANGED suspended

(* The caller receives what the search or the lookup returned. *)
Deliver ==
  /\ out # NoOut
  /\ out' = NoOut
  /\ UNCHANGED <<store, index, initialized, noneMetaOk, run, ops, hist>>
  /\ UNCHANGED suspended

(***************************************************************************)
(* Specification.                                                          *)
(***************************************************************************)
Init ==
  /\ store \in {[d \in S |-> Catalog(d)] : S \in SUBSET Ids}
  /\ index = EmptyIndex
  /\ initialized = FALSE
  /\ noneMetaOk \in BOOLEAN
  /\ run = Idle
  /\ ops = 0
  /\ out = NoOut
  /\ hist = NoHist
  /\ suspended = Idle

Next ==
  \/ StartUpdateEmbeddings
  \/ StartProcessMissing
  \/ StartRepairScript
  \/ StartRefreshScript
  \/ StartTestScrape
  \/ PipelineItem
  \/ InitDone
  \/ RefreshItem
  \/ TestAdd
  \/ Return
  \/ EnvRemoveTemplate
  \/ setup_embeddings
  \/ Search
  \/ GetTemplate
  \/ Deliver

Spec == Init /\ [][Next]_vars

(***************************************************************************)
(* The functions on their own.  A behaviour of SpecCalls starts with one   *)
(* call, its arguments drawn from the sets below, and its one step makes   *)
(* the call: out then holds the arguments and what the function returned   *)
(* (and, for _scrape_and_update_config, store is the Template Store the    *)
(* call left).                                                             *)
(***************************************************************************)
RECURSIVE MakeText(_, _)
MakeText(n, periods) ==
  IF n = 0 THEN ""
  ELSE MakeText(n - 1, periods) \o (IF n \in periods THEN "." ELSE "a")

(* Texts of up to MaxLen characters with at most two periods. *)
Texts ==
  UNION { { MakeText(n, P) : P \in {Q \in SUBSET (1..n) : Cardinality(Q) <= 2} }
          : n \in 0..MaxLen }

(* Configs as yaml.safe_load gives them: each field absent, null, empty or *)
(* set; keywords, where present, is a list.                                *)
TextConfigs ==
  { [EmptyConfig EXCEPT !.name = n, !.keywords = k, !.source = src,
                        !.example = e, !.scraped_content = sc] :
      n \in {<<>>, <<Null>>, <<"">>, <<"Drake">>},
      k \in {<<>>, <<<<>>>>, <<<<Null>>>>, <<<<"choice">>>>, <<<<Null, "wow">>>>},
      src \in {<<>>, <<Null>>, <<"">>, <<"http://kym/drake">>},
      e \in {<<>>} \cup
            { <<[list |-> FALSE, items |-> <<x>>]>> : x \in {Null, "", "such"} } \cup
            { <<[list |-> TRUE, items |-> xs]>> :
                xs \in {<<>>, <<Null>>, <<"such", Null>>} },
      sc \in {<<>>, <<Null>>, <<"">>, <<"Lore.">>} }

(* Configs handed to _scrape_and_update_config: the loaded catalog, and    *)
(* records without a source, with an empty scraped_content, and without    *)
(* the derived template_id.                                                *)
EnrichConfigs ==
  { LoadConfig(d, Catalog(d)) : d \in Ids \cup {"drake"} }
  \cup { [LoadConfig("doge", Catalog("doge")) EXCEPT !.source = <<>>],
         [LoadConfig("doge", Catalog("doge")) EXCEPT !.source = <<"">>],
         [LoadConfig("doge", Catalog("doge")) EXCEPT !.scraped_content = <<"">>],
         Catalog("fry") }

(***************************************************************************)
(* The scripts alone: each run is one process, from its initialize() to    *)
(* its end; test_scraping.py runs on one config.yml or, with --all, on     *)
(* all of them.                                                            *)
(***************************************************************************)
NextScripts ==
  \/ StartRepairScript
  \/ StartRefreshScript
  \/ StartTestScrape
  \/ StartProcessAllTemplates
  \/ PipelineItem
  \/ InitDone
  \/ RefreshItem
  \/ TestAdd
  \/ NextTestTemplate
  \/ Return
  \/ EnvRemoveTemplate

SpecScripts == Init /\ [][NextScripts]_vars

(***************************************************************************)
(* Two requests in one server.  The handlers are coroutines of one event   *)
(* loop: a handler runs until it awaits the network, which in a pipeline   *)
(* run is the page fetch of scrape_webpage at the start of an item that    *)
(* needs scraping (get_embedding and the collection calls do not suspend). *)
(* While it waits, the loop runs another handler.  run is the coroutine    *)
(* that is running, suspended the one that waits; nothing locks the        *)
(* collection.                                                             *)
(***************************************************************************)
AtAwait(r) ==
  r.pc = "main" /\ r.todo # <<>> /\ NeedsScrape(Head(r.todo), r.force)

Switch ==
  /\ out = NoOut
  /\ run.pc = "idle" \/ AtAwait(run)
  /\ run # Idle \/ suspended # Idle
  /\ run' = suspended
  /\ suspended' = run
  /\ UNCHANGED <<store, index, initialized, noneMetaOk, ops, out, hist>>

NextConcurrent ==
  \/ StartUpdateEmbeddings
  \/ StartProcessMissing
  \/ PipelineItem
  \/ Return
  \/ Switch

SpecConcurrent == Init /\ [][NextConcurrent]_vars

(***************************************************************************)
(* The repair as a function of the store, the index as initialize() left   *)
(* it, and the outcome of each missing item (outs[k] for the k-th missing  *)
(* config): process_missing_templates loops over the missing configs;      *)
(* process_missing_embeddings with a batch_size loops over the slices      *)
(* missing_configs[i:i + batch_size], i = 0, batch_size, ..., with a       *)
(* success count per batch.                                                *)
(***************************************************************************)
(* What can happen to one item: every step succeeds (with some text or an  *)
(* empty one), or one of fetch, write-back, embedding and add fails.       *)
ItemOutcomes ==
  { [result |-> r, writable |-> TRUE, embOk |-> TRUE, addOk |-> TRUE] :
      r \in ScrapeResults }
  \cup { [result |-> <<[text |-> "Lore.", aside_content |-> "About",
                        added_at |-> "2021-03-04T09:00:00"]>>,
          writable |-> w, embOk |-> e, addOk |-> a] :
           w \in BOOLEAN, e \in BOOLEAN, a \in BOOLEAN }

(* Python's xs[i:j] for 0 <= i <= j. *)
SliceDropsLast(xs, i, j) == SubSeq(xs, i + 1, Min(j, Len(xs)) - 1)
Slice(xs, i, j) == SubSeq(xs, i + 1, Min(j, Len(xs)))

RECURSIVE ItemLoop(_, _, _, _, _)
ItemLoop(acc, configs, outs, force, noneOk) ==
  IF configs = <<>> THEN acc
  ELSE LET o == Head(outs)
           r == pipeline_item(acc.store, acc.index, Head(configs), force,
                              o.result, o.writable, o.embOk, o.addOk, noneOk)
       IN  ItemLoop([store |-> r.store, index |-> r.index,
                     visited |-> Append(acc.visited, Head(configs).template_id[1]),
                     success_count |-> acc.success_count + (IF r.ok THEN 1 ELSE 0)],
                    Tail(configs), Tail(outs), force, noneOk)

process_missing_templates(st, idx, force_rescrape, outs, noneOk) ==
  ItemLoop([store |-> st, index |-> idx, visited |-> <<>>, success_count |-> 0],
           get_missing_templates(st, idx), outs, force_rescrape, noneOk)

RECURSIVE BatchLoop(_, _, _, _, _, _, _)
BatchLoop(acc, missing_configs, outs, i, batch_size, force, noneOk) ==
  IF i >= Len(missing_configs) THEN acc
  ELSE BatchLoop(ItemLoop([acc EXCEPT !.success_count = 0],
                          Slice(missing_configs, i, i + batch_size),
                          Slice(outs, i, i + batch_size), force, noneOk),
                 missing_configs, outs, i + batch_size, batch_size, force, noneOk)

process_missing_embeddings(st, idx, force_rescrape, batch_size, outs, noneOk) ==
  IF batch_size = 0
  THEN process_missing_templates(st, idx, force_rescrape, outs, noneOk)
  ELSE BatchLoop([store |-> st, index |-> idx, visited |-> <<>>, success_count |-> 0],
                 get_missing_templates(st, idx), outs, 0, batch_size,
                 force_rescrape, noneOk)

(* The index that add_template builds for the catalog records of S. *)
IndexOf(S) ==
  [id \in S |->
     add_template(EmptyIndex, id, LoadConfig(id, Catalog(id)),
                  _create_template_text(LoadConfig(id, Catalog(id))),
                  TRUE, TRUE, TRUE).index[id]]

Calls ==
  { [op |-> "call", fn |-> "truncate_text", text |-> t, max_chars |-> m] :
      t \in Texts, m \in 1..MaxChars }
  \cup { [op |-> "call", fn |-> "_create_template_text", config |-> c] :
           c \in TextConfigs }
  \cup { [op |-> "call", fn |-> "_scrape_and_update_config", config |-> c,
          force_rescrape |-> f, result |-> r, writable |-> w] :
           c \in EnrichConfigs, f \in BOOLEAN, r \in ScrapeResults, w \in BOOLEAN }
  \cup { [op |-> "call", fn |-> "enrich_twice", config |-> c,
          force_rescrape |-> f, result |-> r, result2 |-> r2, reload |-> l] :
           c \in EnrichConfigs, f \in BOOLEAN, r \in ScrapeResults,
           r2 \in ScrapeResults, l \in BOOLEAN }
  \cup { [op |-> "call", fn |-> "process_missing_embeddings",
          force_rescrape |-> f, batch_size |-> b, outs |-> os] :
           f \in BOOLEAN, b \in 1..(MaxBatch + 1),
           os \in [1..Len(TemplateDirs) -> ItemOutcomes] }
  \cup { [op |-> "call", fn |-> "add_template", template_id |-> id,
          config |-> c, embOk |-> e, addOk |-> a] :
           id \in Ids, c \in EnrichConfigs, e \in BOOLEAN, a \in BOOLEAN }

InitCalls ==
  /\ store \in {[d \in S |-> Catalog(d)] : S \in SUBSET Ids}
  /\ index \in {IndexOf(S) : S \in SUBSET Ids}
  /\ initialized = FALSE
  /\ noneMetaOk = TRUE
  /\ run = Idle
  /\ ops = 0
  /\ hist = NoHist
  /\ out \in Calls
  /\ suspended = Idle
  /\ out.fn \notin {"process_missing_embeddings", "add_template"} =>
       index = EmptyIndex
  /\ out.fn \notin {"_scrape_and_update_config", "enrich_twice",
                     "process_missing_embeddings"} => store = <<>>

CallTruncateText ==
  /\ out.op = "call" /\ out.fn = "truncate_text"
  /\ out' = [op |-> "truncate_text", text |-> out.text, max_chars |-> out.max_chars,
             result |-> truncate_text(out.text, out.max_chars)]
  /\ UNCHANGED <<store, index, initialized, noneMetaOk, run, ops, hist>>
  /\ UNCHANGED suspended

CallCreateTemplateText ==
  /\ out.op = "call" /\ out.fn = "_create_template_text"
  /\ out' = [op |-> "_create_template_text", config |-> out.config,
             result |-> _create_template_text(out.config)]
  /\ UNCHANGED <<store, index, initialized, noneMetaOk, run, ops, hist>>
  /\ UNCHANGED suspended

CallScrapeAndUpdateConfig ==
  /\ out.op = "call" /\ out.fn = "_scrape_and_update_config"
  /\ LET r == _scrape_and_update_config(out.config, out.force_rescrape,
                                        out.result, store, out.writable)
     IN  /\ store' = r.store
         /\ out' = [op |-> "_scrape_and_update_config", config |-> out.config,
                    force_rescrape |-> out.force_rescrape, result |-> out.result,
                    before |-> store, returned |-> r.config,
                    fetched |-> r.fetched, raised |-> r.raised]
  /\ UNCHANGED <<index, initialized, noneMetaOk, run, ops, hist>>
  /\ UNCHANGED suspended

(* Two enrichments of one template, as two pipeline runs or two items of   *)
(* one run make them: the first with the given force_rescrape, the second  *)
(* with force_rescrape false, on the record the first call returned or, in *)
(* a later run (reload), on the record loaded again from config.yml.       *)
CallEnrichTwice ==
  /\ out.op = "call" /\ out.fn = "enrich_twice"
  /\ LET first == _scrape_and_update_config(out.config, out.force_rescrape,
                                            out.result, store, TRUE)
         tid == out.config.template_id
         config2 == IF out.reload /\ Has(tid) /\ tid[1] \in DOMAIN first.store
                    THEN LoadConfig(tid[1], first.store[tid[1]])
                    ELSE first.config
         second == _scrape_and_update_config(config2, FALSE, out.result2,
                                             first.store, TRUE)
     IN  /\ store' = second.store
         /\ out' = [op |-> "enrich_twice", config |-> out.config,
                    result |-> out.result, result2 |-> out.result2,
                    reload |-> out.reload, before |-> store,
                    first |-> first, config2 |-> config2, second |-> second]
  /\ UNCHANGED <<index, initialized, noneMetaOk, run, ops, hist>>
  /\ UNCHANGED suspended

(* The repair script after initialize(), with a batch size, next to the    *)
(* unbatched repair of the same store and index with the same outcomes.    *)
CallProcessMissingEmbeddings ==
  /\ out.op = "call" /\ out.fn = "process_missing_embeddings"
  /\ LET missing == get_missing_templates(store, index)
         batched == process_missing_embeddings(store, index, out.force_rescrape,
                                               out.batch_size, out.outs, noneMetaOk)
         unbatched == process_missing_embeddings(store, index, out.force_rescrape,
                                                 0, out.outs, noneMetaOk)
     IN  /\ store' = batched.store
         /\ index' = batched.index
         /\ out' = [op |-> "process_missing_embeddings",
                    batch_size |-> out.batch_size,
                    missing |-> [k \in DOMAIN missing |-> missing[k].template_id[1]],
                    visited |-> batched.visited, before |-> index,
                    unbatched |-> unbatched]
  /\ UNCHANGED <<initialized, noneMetaOk, run, ops, hist>>
  /\ UNCHANGED suspended

(* add_template(template_id, config, _create_template_text(config)) on an  *)
(* index that holds the id or not.                                         *)
CallAddTemplate ==
  /\ out.op = "call" /\ out.fn = "add_template"
  /\ LET a == add_template(index, out.template_id, out.config,
                           _create_template_text(out.config),
                           out.embOk, out.addOk, noneMetaOk)
     IN  /\ index' = a.index
         /\ out' = [op |-> "add_template", template_id |-> out.template_id,
                    embOk |-> out.embOk, addOk |-> out.addOk,
                    before |-> index, ret |-> a.ret]
  /\ UNCHANGED <<store, initialized, noneMetaOk, run, ops, hist>>
  /\ UNCHANGED suspended

NextCalls ==
  \/ CallTruncateText
  \/ CallCreateTemplateText
  \/ CallScrapeAndUpdateConfig
  \/ CallEnrichTwice
  \/ CallProcessMissingEmbeddings
  \/ CallAddTemplate

SpecCalls == InitCalls /\ [][NextCalls]_vars

(***************************************************************************)
(* Properties.                                                             *)
(***************************************************************************)
LoggedIds == {run.log[i].id : i \in DOMAIN run.log}
RepairReturns ==
  Done /\ (run.mode = "repair" \/ (run.mode = "repair_script" /\ run.batch_size = 0))
RepairDone == Done /\ run.mode \in {"repair", "repair_script"}
SecondRebuildDone == Done /\ run.mode = "rebuild" /\ hist.valid

(* C1: every add_template call that returned True for an id leaves the     *)
(* index entry of that id holding the document of that call, also when the *)
(* id was in the index already (replace, not duplicate or keep).           *)
C1_ReplaceNotDuplicate ==
  \A i \in DOMAIN run.log :
    (run.log[i].op = "add" /\ run.log[i].ok) =>
      /\ run.log[i].id \in DOMAIN index
      /\ index[run.log[i].id].document = run.log[i].document

(* C2: when an incremental repair has finished, every id of the Template   *)
(* Store is in the index.                                                  *)
C2_CompleteAfterRepair ==
  RepairDone => DOMAIN store \subseteq DOMAIN index

(* C2, amended: when an incremental repair has finished, every id of the   *)
(* Template Store is in the index, except the ids whose item failed in     *)
(* this repair.                                                            *)
C2_CompleteExceptFailed ==
  RepairDone =>
    \A id \in DOMAIN store :
      \/ id \in DOMAIN index
      \/ \E i \in DOMAIN run.log : run.log[i].id = id /\ ~run.log[i].ok

C2_Witness ==
  /\ RepairDone
  /\ DOMAIN run.pre # {}
  /\ \E i \in DOMAIN run.log : run.log[i].ok /\ run.log[i].id \notin DOMAIN run.pre
  /\ DOMAIN store \subseteq DOMAIN index

(* C3: process_missing_templates visits exactly the ids of the store that  *)
(* were not in the index, each once, and returns the number of ids it      *)
(* visited.                                                                *)
C3_RepairReturnsProcessed ==
  RepairReturns =>
    /\ LoggedIds = run.store0 \ DOMAIN run.pre
    /\ Len(run.log) = Cardinality(LoggedIds)
    /\ run.success_count = Cardinality(LoggedIds)

(* C3, amended: it visits exactly those ids, each once, and returns the    *)
(* number of them for which add_template returned True.                    *)
C3_RepairReturnsSucceeded ==
  RepairReturns =>
    /\ LoggedIds = run.store0 \ DOMAIN run.pre
    /\ Len(run.log) = Cardinality(LoggedIds)
    /\ run.success_count = Cardinality(OkIds(run.log))

C3_Witness ==
  /\ RepairReturns
  /\ run.store0 = Ids
  /\ DOMAIN run.pre \cap Ids # {}
  /\ Len(run.log) = 1
  /\ run.success_count = 1

(* C4: a full rebuild that follows a full rebuild, nothing else having     *)
(* written in between, leaves the same indexed ids with the same           *)
(* documents as the first.                                                 *)
C4_RebuildIdempotent ==
  SecondRebuildDone => Documents(index) = hist.docs

(* C4, amended: it does so when the same items succeed in both rebuilds    *)
(* and the second rebuild fetches no page.                                 *)
C4_RebuildIdempotentSameOutcome ==
  (/\ SecondRebuildDone
   /\ OkIds(run.log) = hist.ok
   /\ \A i \in DOMAIN run.log : ~run.log[i].fetched)
  => Documents(index) = hist.docs

C4_Witness ==
  /\ SecondRebuildDone
  /\ OkIds(run.log) = hist.ok
  /\ \A i \in DOMAIN run.log : ~run.log[i].fetched
  /\ DOMAIN index = Ids
  /\ \E id \in Ids : store[id] # Catalog(id)

(* C5: when a rebuild, repair or refresh loop has finished, it has visited *)
(* every item of its batch, each once, whatever items failed.              *)
PlannedIds ==
  CASE run.mode = "rebuild" -> run.store0
    [] run.mode \in {"repair", "repair_script"} -> run.store0 \ DOMAIN run.pre
    [] run.mode = "refresh" -> DOMAIN run.pre
    [] OTHER -> LoggedIds

C5_FailureIsolation ==
  (Done /\ run.mode \in {"rebuild", "repair", "repair_script", "refresh"}) =>
    /\ LoggedIds = PlannedIds
    /\ Len(run.log) = Cardinality(PlannedIds)

C5_Witness ==
  /\ Done
  /\ run.mode \in {"rebuild", "repair", "repair_script", "refresh"}
  /\ \E i, j \in DOMAIN run.log : i < j /\ ~run.log[i].ok /\ run.log[j].ok

(* C6: every result of a search with from_date set has an added_at_ts not  *)
(* below the timestamp of from_date, and every result of a search with     *)
(* to_date set has one not above the timestamp of to_date.                 *)
C6_DateFilter ==
  out.op = "search" =>
    \A i \in DOMAIN out.results :
      LET ts == out.results[i].added_at_ts
      IN  /\ out.from_date # Null =>
               ts # <<>> /\ ts[1] >= date_to_timestamp(out.from_date)[1]
          /\ out.to_date # Null =>
               ts # <<>> /\ ts[1] <= date_to_timestamp(out.to_date)[1]

(* C7: a search returns at most n_results results, in order of             *)
(* non-increasing similarity.                                              *)
C7_RankingBound ==
  out.op = "search" =>
    /\ Len(out.results) <= out.n_results
    /\ \A i, j \in DOMAIN out.results :
         i < j => out.results[i].similarity >= out.results[j].similarity

C7_Witness ==
  /\ out.op = "search"
  /\ Len(out.results) = 2
  /\ out.results[1].similarity > out.results[2].similarity

(* C8: during and after the metadata-only refresh every entry that was     *)
(* indexed when the refresh started is still indexed with the vector and   *)
(* the document it had.                                                    *)
C8_RefreshKeepsVectorAndDocument ==
  (run.mode = "refresh" /\ run.pc = "main") =>
    \A id \in DOMAIN run.pre :
      /\ id \in DOMAIN index
      /\ index[id].vector = run.pre[id].vector
      /\ index[id].document = run.pre[id].document

C8_Witness ==
  /\ Done /\ run.mode = "refresh"
  /\ \E id \in DOMAIN run.pre : index[id].metadata # run.pre[id].metadata

(* C9: get_template of an indexed id finds it and returns the config that  *)
(* was serialized into its config_json, whichever path wrote the metadata. *)
C9_ConfigRoundTrip ==
  (out.op = "get" /\ out.template_id \in DOMAIN index) =>
    /\ out.info.found
    /\ out.info.config = <<index[out.template_id].metadata.config_json.cfg>>

(* C10: an index entry whose record has no added_at carries the explicit   *)
(* "no timestamp" value (None) in added_at_ts, never a number.             *)
C10_MissingTimestampSentinel ==
  \A id \in DOMAIN index :
    index[id].metadata.added_at = "" => index[id].metadata.added_at_ts = <<>>

(***************************************************************************)
(* Properties of the functions, under SpecCalls.                           *)
(***************************************************************************)
SetMax(S) == CHOOSE x \in S : \A y \in S : y <= x

(* The positions (from 1) of the periods among the first m characters. *)
PeriodsIn(t, m) == {p \in 1..m : p <= Len(t) /\ SubSeq(t, p, p) = "."}

Contains(s, sub) ==
  \E i \in 1..(Len(s) - Len(sub) + 1) : SubSeq(s, i, i + Len(sub) - 1) = sub

DropNull(xs) == SelectSeq(xs, LAMBDA x : x # Null)

Present(f) == f # <<>> /\ f[1] # Null /\ f[1] # ""

(* The segments the claim lists for a config, in its order. *)
C12_Segments(c) ==
  (IF Present(c.name) THEN <<"Name: " \o c.name[1]>> ELSE <<>>)
  \o (IF c.keywords # <<>> /\ DropNull(c.keywords[1]) # <<>>
      THEN <<"Keywords: " \o Join(DropNull(c.keywords[1]), ", ")>> ELSE <<>>)
  \o (IF Present(c.source) THEN <<"Source: " \o c.source[1]>> ELSE <<>>)
  \o (IF c.example = <<>> THEN <<>>
      ELSE IF c.example[1].list
      THEN IF DropNull(c.example[1].items) # <<>>
           THEN <<"Example: " \o Join(DropNull(c.example[1].items), " ")>>
           ELSE <<>>
      ELSE IF Present(c.example[1].items)
           THEN <<"Example: " \o c.example[1].items[1]>> ELSE <<>>)
  \o (IF Present(c.scraped_content)
      THEN <<"Description: " \o c.scraped_content[1]>> ELSE <<>>)

(* C12: the document is the segments Name, Keywords, Source, Example,      *)
(* Description, in that order and joined by single spaces, without the     *)
(* segments whose field is absent, null or empty.                          *)
C12_SegmentOmission ==
  out.op = "_create_template_text" =>
    out.result = Join(C12_Segments(out.config), " ")

(* C13: a config whose keywords are absent, empty or all null gives a      *)
(* document without "Keywords:"; otherwise the Keywords segment lists the  *)
(* non-null keywords, a list example the non-null examples, and no null    *)
(* member of either is written into the document.                          *)
C13_KeywordsOmission ==
  out.op = "_create_template_text" =>
    LET c == out.config
        kws == IF c.keywords = <<>> THEN <<>> ELSE DropNull(c.keywords[1])
        exs == IF c.example # <<>> /\ c.example[1].list
               THEN DropNull(c.example[1].items) ELSE <<>>
    IN  /\ kws = <<>> => ~Contains(out.result, "Keywords:")
        /\ kws # <<>> => Contains(out.result, "Keywords: " \o Join(kws, ", "))
        /\ exs # <<>> => Contains(out.result, "Example: " \o Join(exs, " "))
        /\ (c.name # <<Null>> /\ c.source # <<Null>>) =>
             ~Contains(out.result, "None")

C13_Witness ==
  /\ out.op = "_create_template_text"
  /\ out.config.keywords = <<<<Null>>>>
  /\ out.config.example = <<[list |-> TRUE, items |-> <<"such", Null>>]>>
  /\ out.result = "Name: Drake Example: such"

(* C14: a call for a record without a source URL, or for a record that has *)
(* scraped text while force_rescrape is false, calls no extractor, leaves  *)
(* the Template Store as it was and returns the record unchanged.          *)
C14_EnrichmentNoOp ==
  (/\ out.op = "_scrape_and_update_config"
   /\ \/ ~Present(out.config.source)
      \/ Present(out.config.scraped_content) /\ ~out.force_rescrape)
  => /\ ~out.fetched
     /\ ~out.raised
     /\ store = out.before
     /\ out.returned = out.config

C14_Witness ==
  /\ out.op = "_scrape_and_update_config"
  /\ Present(out.config.source)
  /\ Present(out.config.scraped_content)
  /\ ~out.force_rescrape
  /\ out.result # <<>>
  /\ out.config.template_id # <<>>
  /\ out.config.template_id[1] \in DOMAIN store
  /\ out.returned = out.config

(* C15: when the extractor fails, the call returns the record unchanged,   *)
(* leaves the Template Store as it was, and what the caller receives tells *)
(* it that the fetch failed: no call that skipped the fetch gives the      *)
(* caller the same.                                                        *)
C15_EnrichmentFailureReported ==
  (out.op = "_scrape_and_update_config" /\ out.fetched /\ out.result = <<>>)
  => /\ out.returned = out.config
     /\ store = out.before
     /\ ~out.raised
     /\ \A c \in EnrichConfigs, f \in BOOLEAN :
          LET r == _scrape_and_update_config(c, f, <<>>, store, TRUE)
          IN  ~r.fetched => r.config # out.returned

(***************************************************************************)
(* Properties of the search and lookup endpoints and of the rebuild, under *)
(* Spec.                                                                   *)
(***************************************************************************)

(* C16: a search whose query embedding fails returns no results and is     *)
(* answered as an error, not as a successful search.                       *)
C16_SearchEmbeddingFailure ==
  (out.op = "search" /\ out.invoked /\ ~out.embOk) =>
    /\ out.results = <<>>
    /\ out.status = "error"

(* C17: a search whose from_date is later than its to_date returns an      *)
(* empty list, and no error occurs while it is answered.                   *)
C17_InvertedRange ==
  (/\ out.op = "search" /\ out.invoked /\ out.embOk /\ out.n_results > 0
   /\ out.from_date # Null /\ out.to_date # Null
   /\ date_to_timestamp(out.from_date)[1] > date_to_timestamp(out.to_date)[1])
  => /\ out.results = <<>>
     /\ out.logged = ""
     /\ out.code = 200

(* C18: a lookup of an id that is not in the index is answered not found   *)
(* (None, 404); a lookup of an id that is in the index returns its entry   *)
(* (200) and is never answered not found.                                  *)
C18_LookupNotFound ==
  out.op = "get" =>
    IF out.template_id \in DOMAIN index
    THEN out.info.found /\ out.code = 200
    ELSE ~out.info.found /\ out.code = 404

(* C19: a search request whose from_date or to_date is not a date in the   *)
(* form YYYY-MM-DD is answered 400 and search_templates is not called.     *)
WellFormedDates == {"1970-01-01", "2019-01-01", "2020-01-01"}

C20_OrphanRemoval ==
  /\ (Done /\ run.mode = "rebuild") => DOMAIN index \subseteq run.store0
  /\ (run.pc = "main" /\ run.mode \in {"repair", "repair_script", "refresh"}) =>
       DOMAIN run.pre \subseteq DOMAIN index

C20_Witness ==
  /\ Done /\ run.mode = "rebuild"
  /\ DOMAIN run.pre \ run.store0 # {}
  /\ DOMAIN index # {}

(***************************************************************************)
(* Properties of the index and of the pipeline runs, under Spec.           *)
(***************************************************************************)

(* C21: in every reachable state, also after a failed item and between two *)
(* items, every indexed id has a vector, a document and a metadata block   *)
(* that belong together: the vector is the embedding of the document and   *)
(* the metadata block is that of the id.                                   *)
C21_AtomicEntries ==
  \A id \in DOMAIN index :
    /\ index[id].vector = [of |-> truncate_text(index[id].document, DefaultMaxChars)]
    /\ index[id].document # ""
    /\ index[id].metadata.template_id = id

C21_Witness ==
  /\ run.pc = "main" /\ run.todo # <<>>
  /\ \E i \in DOMAIN run.log : ~run.log[i].ok
  /\ DOMAIN index # {}

(* C22: when a rebuild or repair is aborted between two items, every item  *)
(* the run has persisted is in the index, and every id the run has not yet *)
(* processed has the entry, or the absence of an entry, it had before the  *)
(* run started.                                                            *)
C22_AbortSafety ==
  (run.pc = "main" /\ run.mode \in {"rebuild", "repair", "repair_script"}) =>
    /\ \A i \in DOMAIN run.log :
         run.log[i].ok => /\ run.log[i].id \in DOMAIN index
                          /\ index[run.log[i].id].document = run.log[i].document
    /\ \A id \in (DOMAIN run.pre \cup DOMAIN index) \ LoggedIds :
         /\ id \in DOMAIN index /\ id \in DOMAIN run.pre
         /\ index[id] = run.pre[id]

(* C22, amended: every id the run has not yet processed has the entry, or  *)
(* the absence of an entry, it had when the run's loop started: after the  *)
(* clearing of the index for a full rebuild, before the run for a repair.  *)
C22_AbortSafetyAfterClear ==
  (run.pc = "main" /\ run.mode \in {"rebuild", "repair", "repair_script"}) =>
    LET base == IF run.mode = "rebuild" THEN EmptyIndex ELSE run.pre
    IN  /\ \A i \in DOMAIN run.log :
             run.log[i].ok => /\ run.log[i].id \in DOMAIN index
                              /\ index[run.log[i].id].document = run.log[i].document
        /\ \A id \in (DOMAIN base \cup DOMAIN index) \ LoggedIds :
             /\ id \in DOMAIN index /\ id \in DOMAIN base
             /\ index[id] = base[id]

C22_Witness ==
  /\ run.pc = "main" /\ run.mode \in {"repair", "repair_script"}
  /\ run.todo # <<>>
  /\ \E i \in DOMAIN run.log : run.log[i].ok
  /\ DOMAIN run.pre # {}

(* C25: while a full rebuild runs, the index holds only what this rebuild  *)
(* has inserted, so an id of the Template Store that was indexed before    *)
(* the rebuild is absent until its item is done; and when the rebuild has  *)
(* finished, an id whose item failed has no entry, whatever it had before. *)
C25_RebuildWindow ==
  (run.pc = "main" /\ run.mode = "rebuild") =>
    /\ DOMAIN index = OkIds(run.log)
    /\ \A id \in DOMAIN run.pre \ OkIds(run.log) : id \notin DOMAIN index

C25_Witness ==
  /\ Done /\ run.mode = "rebuild"
  /\ \E i \in DOMAIN run.log :
       /\ ~run.log[i].ok
       /\ run.log[i].id \in DOMAIN run.pre \cap DOMAIN store
       /\ run.log[i].id \notin DOMAIN index

(* C24: when the server starts with an index that holds no embeddings,     *)
(* setup_embeddings runs a full rebuild before requests are served; when   *)
(* the index is not empty it runs none.                                    *)
C24_ServerStartInitialises ==
  out.op = "setup_embeddings" =>
    out.update_embeddings = IF out.had THEN "not called" ELSE "ran"

(* C27: the metadata written by the metadata-only refresh for an id equals *)
(* the metadata add_template writes for the same current record, loaded    *)
(* as the pipeline loads it; text_zones is the record's number of zones.   *)
C27_RefreshSameMetadata ==
  (run.mode = "refresh" /\ run.pc = "main") =>
    \A i \in DOMAIN run.log :
      (run.log[i].ok /\ run.log[i].id \in DOMAIN store) =>
        index[run.log[i].id].metadata =
          AddMetadata(run.log[i].id,
                      LoadConfig(run.log[i].id, store[run.log[i].id]))

(***************************************************************************)
(* Properties of the enrichment write-back and of batching, under          *)
(* SpecCalls.                                                              *)
(***************************************************************************)

(* C28: when a call of _scrape_and_update_config saves the record, the     *)
(* stored record differs from the one stored before only in                *)
(* scraped_content, aside_content and added_at; no other key of it is      *)
(* added, removed or changed, and no other record changes.                 *)
C28_WriteBackFrame ==
  (out.op = "_scrape_and_update_config" /\ store # out.before) =>
    /\ DOMAIN store = DOMAIN out.before
    /\ \A id \in DOMAIN store :
         store[id] = [out.before[id] EXCEPT
                        !.scraped_content = store[id].scraped_content,
                        !.aside_content = store[id].aside_content,
                        !.added_at = store[id].added_at]

(* The first of the two enrichments fetched, succeeded and saved the       *)
(* record to config.yml.                                                   *)
FirstWrittenThrough ==
  /\ out.op = "enrich_twice"
  /\ out.first.fetched /\ out.result # <<>>
  /\ Has(out.config.template_id)
  /\ out.config.template_id[1] \in DOMAIN out.before
  /\ out.first.store[out.config.template_id[1]] = out.first.config

SecondIsNoOp ==
  /\ ~out.second.fetched
  /\ store = out.first.store
  /\ out.second.config = out.config2

(* C29: once an enrichment has succeeded and been written through, a later *)
(* enrichment of that template with force_rescrape false calls no          *)
(* extractor and leaves the record unchanged, whatever text the first one  *)
(* obtained.                                                               *)
C29_EnrichmentIdempotent == FirstWrittenThrough => SecondIsNoOp

(* C29, amended: it does so when the first one obtained a non-empty text.  *)
C29_EnrichmentIdempotentNonEmpty ==
  (FirstWrittenThrough /\ Truthy(out.result[1].text)) => SecondIsNoOp

C29_Witness ==
  /\ FirstWrittenThrough /\ Truthy(out.result[1].text)
  /\ out.reload /\ out.result2 # <<>>
  /\ out.config.scraped_content = <<>>
  /\ store[out.config.template_id[1]].scraped_content = <<out.result[1].text>>

(* C26: the repair script with a batch size leaves the Template Store and  *)
(* the index as the unbatched repair of the same store and index with the  *)
(* same item outcomes leaves them, and visits each missing id exactly      *)
(* once.                                                                   *)
C26_BatchingIsPacing ==
  out.op = "process_missing_embeddings" =>
    /\ store = out.unbatched.store
    /\ index = out.unbatched.index
    /\ out.visited = out.missing

C26_Witness ==
  /\ out.op = "process_missing_embeddings"
  /\ out.batch_size = 1 /\ Len(out.missing) = 2
  /\ DOMAIN index = {out.missing[2]}
  /\ store # [d \in DOMAIN store |-> Catalog(d)]

(***************************************************************************)
(* Properties of two runs in one server, under SpecConcurrent.             *)
(***************************************************************************)

(* C23: when two pipeline runs are interleaved at their fetches, no run's  *)
(* write of an id is lost or duplicated: a run that has finished finds     *)
(* every id it added in the index, with the document it added.             *)
C23_NoLostWrite ==
  (Done /\ run.mode \in {"rebuild", "repair"}) =>
    \A i \in DOMAIN run.log :
      run.log[i].ok =>
        /\ run.log[i].id \in DOMAIN index
        /\ index[run.log[i].id].document = run.log[i].document

(* The steps of a server run r on its ids so far: each id was visited at   *)
(* most once, and the entry of each id it added holds the text synthesized *)
(* from the record that was serialized with it, and that text's embedding. *)
ObservesOwnUpserts(r) ==
  /\ \A i, j \in DOMAIN r.log : r.log[i].id = r.log[j].id => i = j
  /\ \A i \in DOMAIN r.log :
       r.log[i].ok =>
         /\ r.log[i].id \in DOMAIN index
         /\ LET entry == index[r.log[i].id]
            IN  /\ entry.document = r.log[i].document
                /\ entry.document = _create_template_text(entry.metadata.config_json.cfg)
                /\ entry.vector = get_embedding(entry.document, TRUE)[1]

(* C30: within a pipeline run each id goes once through enrich,            *)
(* synthesize, embed and add, the add writes the enriched record and its   *)
(* synthesized text, and a read of the id at any later point of the run    *)
(* finds that data.                                                        *)
C30_SameIdOrdering ==
  \A r \in {run, suspended} :
    (r.pc = "main" /\ r.mode \in {"rebuild", "repair"}) => ObservesOwnUpserts(r)

(***************************************************************************)
(* Further properties of the index and of the runs, under Spec.            *)
(***************************************************************************)

(* C31: the document of every entry is the text synthesized from the       *)
(* record add_template serialized with it (the enriched record), and its   *)
(* vector is the embedding of that document after truncation; the          *)
(* metadata-only refresh, which replaces the serialized record alone, is   *)
(* the one path after which the record and the document may differ.        *)
C31_DocumentAndVectorTogether ==
  \A id \in DOMAIN index :
    /\ index[id].vector = get_embedding(index[id].document, TRUE)[1]
    /\ index[id].metadata.config_json.fmt = "json" =>
         index[id].document =
           _create_template_text(index[id].metadata.config_json.cfg)

C31_Witness ==
  \E id \in DOMAIN index :
    /\ index[id].metadata.config_json.fmt = "json"
    /\ index[id].metadata.config_json.cfg.scraped_content = <<"Lore.">>
    /\ Catalog(id).scraped_content = <<>>
    /\ Contains(index[id].document, "Description: Lore.")

(* The distance the index computes between the query of the search in out *)
(* and the entry of a result.                                              *)
ResultDistance(res) ==
  CosineDistance(get_embedding(out.query, TRUE)[1], index[res.template_id].vector)

(* C32: the similarity of each search result is 1 minus the distance the   *)
(* index returned for its entry, and lies in [0, 1].                       *)
C32_SimilarityInUnitInterval ==
  out.op = "search" =>
    \A i \in DOMAIN out.results :
      /\ out.results[i].similarity = 1 - ResultDistance(out.results[i])
      /\ 0 <= out.results[i].similarity /\ out.results[i].similarity <= 1

(* C32, amended: it is 1 minus that distance and lies in [-1, 1], the      *)
(* cosine distance lying in [0, 2].                                        *)
C32_SimilarityIsOneMinusDistance ==
  out.op = "search" =>
    \A i \in DOMAIN out.results :
      /\ out.results[i].similarity = 1 - ResultDistance(out.results[i])
      /\ -1 <= out.results[i].similarity /\ out.results[i].similarity <= 1

C32_Witness ==
  /\ out.op = "search"
  /\ \E i \in DOMAIN out.results : out.results[i].similarity < 0

(* The number of text zones of the record of id as _load_template_configs *)
(* loads it.                                                               *)
TextZoneCount(id) == LoadConfig(id, store[id]).text_zones[1]

(* C33: text_zones of a loaded record is the number of entries of its text *)
(* configuration, 2 when it has none; the value in the index metadata of   *)
(* an id, and the one get_template and search_templates return for it, is  *)
(* that count.                                                             *)
C33_TextZoneCount ==
  /\ \A id \in DOMAIN store :
       TextZoneCount(id) = IF Has(store[id].text) THEN store[id].text[1] ELSE 2
  /\ \A id \in DOMAIN index \cap DOMAIN store :
       StrToInt(index[id].metadata.text_zones) = TextZoneCount(id)
  /\ (out.op = "get" /\ out.info.found /\ out.template_id \in DOMAIN store) =>
       out.info.text_zones = TextZoneCount(out.template_id)
  /\ out.op = "search" =>
       \A i \in DOMAIN out.results :
         out.results[i].template_id \in DOMAIN store =>
           out.results[i].text_zones = TextZoneCount(out.results[i].template_id)

(* The initialize() calls of the process of run r so far. *)
InitializeOnce(r) ==
  \A i \in DOMAIN r.inits :
    /\ r.inits[i].rebuild <=> (~r.inits[i].was /\ r.inits[i].empty)
    /\ i > 1 => /\ r.inits[i].was
                /\ ~r.inits[i].read
                /\ ~r.inits[i].rebuild

(* C34: initialize() starts a full rebuild only when the instance is not   *)
(* yet initialized and the index is empty; once it has returned, a later   *)
(* call in the process reads nothing and rebuilds nothing, also when the   *)
(* index is empty at that call.                                            *)
C34_InitializeOnce == InitializeOnce(run)

C34_Witness ==
  /\ Len(run.inits) = 2
  /\ run.inits[2].empty
  /\ run.pc = "main" /\ run.arg # <<>>

(* C39: the scraping script indexes each template under the name of its    *)
(* template directory: every id it adds is the id of a template, and two   *)
(* templates of one process_all_templates pass never get the same id.      *)
C39_ScriptIndexIdentity ==
  run.mode = "test" =>
    /\ \A i \in DOMAIN run.log : run.log[i].id \in Ids
    /\ \A i, j \in DOMAIN run.log : run.log[i].id = run.log[j].id => i = j

(* C35: when a full rebuild has finished, its success count is at most the *)
(* number of configs it loaded and equals the number of index entries;     *)
(* when an incremental repair returns, the index has grown by the count it *)
(* returns.                                                                *)
C35_SuccessCountMatchesIndex ==
  /\ (Done /\ run.mode = "rebuild") =>
       /\ run.success_count <= Cardinality(run.store0)
       /\ Cardinality(DOMAIN index) = run.success_count
  /\ RepairReturns =>
       Cardinality(DOMAIN index) = Cardinality(DOMAIN run.pre) + run.success_count

C35_Witness ==
  /\ RepairReturns
  /\ run.success_count = 1 /\ Len(run.log) = 2
  /\ DOMAIN run.pre # {}

(* C36: an incremental repair leaves the entry (vector, document and       *)
(* metadata) of every id that was in the index when it computed its        *)
(* missing set as it was, and processes no item for such an id: no         *)
(* extractor call and no embedding call is made for it.                    *)
C36_RepairFrame ==
  (run.pc = "main" /\ run.mode \in {"repair", "repair_script"}) =>
    \A id \in DOMAIN run.pre :
      /\ id \in DOMAIN index
      /\ index[id] = run.pre[id]
      /\ id \notin LoggedIds

C36_Witness ==
  /\ RepairDone
  /\ DOMAIN run.pre \cap DOMAIN store # {}
  /\ \E i \in DOMAIN run.log : run.log[i].ok /\ run.log[i].fetched

(* C37: when get_embedding fails for the text, add_template returns False *)
(* and leaves the index as it was: no entry is created for the id and the  *)
(* entry the id had is not altered.                                        *)
C37_FailedEmbeddingLeavesIndex ==
  (out.op = "add_template" /\ ~out.embOk) =>
    /\ ~out.ret
    /\ index = out.before

C37_Witness ==
  /\ out.op = "add_template" /\ ~out.embOk
  /\ DOMAIN out.before # {}
  /\ out.template_id \notin DOMAIN out.before

====
